---- MODULE Spec2Model ----
(***************************************************************************)
(* Model of the Dominos session client (src/dominos/dominos.py).           *)
(*                                                                         *)
(* The client is a sequential object: every public method is one action.   *)
(* The remote site is the environment: each action draws the response of   *)
(* each HTTP round trip it makes from a small set of possible responses    *)
(* (transport failure, status code, body).  Python exceptions that leave a *)
(* method are recorded in `last` together with the returned value, and the *)
(* requests a method issued are recorded in `sent`.                        *)
(***************************************************************************)
EXTENDS Integers, Sequences, FiniteSets, TLC

VARIABLES
    sess,          \* self.sess: [id, cookies]; id names the session object
    stores,        \* self.stores
    menu_version,  \* self.menu_version
    menu,          \* self.menu.items: category -> sequence of Items
    basket,        \* self.basket (NoBasket while the attribute is not set)
    last,          \* the last call: method, arguments, response, outcome
    sent,          \* the HTTP requests issued by the last call, in order
    ctxOk,         \* history: some get_store_context call has returned True
    ctxVersion,    \* history: the menuVersion of the response to the most
                   \* recent get_store_context call that returned True
    basketResp     \* history: the response to the most recent get_basket,
                   \* add_item or remove_item call that succeeded

vars == <<sess, stores, menu_version, menu, basket, last, sent, ctxOk,
          ctxVersion, basketResp>>

----------------------------------------------------------------------------
(* Bounds *)

MaxStores == 2        \* longest store list a search returns
MaxBasketItems == 2   \* most line items in a basket the server returns
MaxIngredients == 5   \* add_item on a pizza is explored while the list fits
MaxSessions == 2      \* reset_session is explored up to this session id

----------------------------------------------------------------------------
(* Python values *)

None == "None"                 \* Python's None, where a string is expected
NoBasket == <<>>               \* self.basket is not set yet

\* truth value of `not v` for the values menu_version takes
PyNot(v) == v = None \/ v = ""

\* seq[i] succeeds in Python for -len <= i < len
PyValid(s, i) == -Len(s) <= i /\ i < Len(s)

\* the position seq[i] denotes, counted from 1: negative indices count from
\* the end
PyPos(s, i) == IF i >= 0 THEN i + 1 ELSE Len(s) + i + 1

\* seq[i] for a valid i
PyGet(s, i) == s[PyPos(s, i)]

\* all sequences over S of length at most n without a repeated element
SeqsUpTo(S, n) ==
    {s \in UNION {[1..k -> S] : k \in 0..n} :
        \A i, j \in DOMAIN s : s[i] = s[j] => i = j}

----------------------------------------------------------------------------
(* HTTP responses *)

TextBody == [kind |-> "text", val |-> <<>>]          \* not JSON
ArrayBody(a) == [kind |-> "array", val |-> a]        \* a JSON array
ObjectBody(o) == [kind |-> "object", val |-> o]      \* a JSON object

NetErr == [net |-> "error", status |-> 0, body |-> TextBody]
NoResp == [net |-> "none", status |-> 0, body |-> TextBody]
Http(st, b) == [net |-> "ok", status |-> st, body |-> b]

\* r.json() raises ValueError on a body that is not JSON
JsonFails(r) == r.body.kind = "text"

----------------------------------------------------------------------------
(* Outcome of a call *)

\* op: the method; idx, cat, pos: its arguments; resp: the response it got;
\* kind/val: "return" and the returned value, or "raise" and the exception;
\* obj: the returned object, if any; out: what the call printed
Call(op, idx, cat, pos, resp, kind, val, obj, out) ==
    [op |-> op, idx |-> idx, cat |-> cat, pos |-> pos, resp |-> resp,
     kind |-> kind, val |-> val, obj |-> obj, out |-> out]

Returns(op, idx, resp, val) ==
    Call(op, idx, "", 0, resp, "return", val, <<>>, <<>>)
Raises(op, idx, resp, exc) ==
    Call(op, idx, "", 0, resp, "raise", exc, <<>>, <<>>)

Get(url, params) == [method |-> "GET", url |-> url, data |-> params]
Post(url, payload) == [method |-> "POST", url |-> url, data |-> payload]

----------------------------------------------------------------------------
(* Stores *)

StoreIds == {1, 2}
Store(id) == [Id |-> id, Name |-> IF id = 1 THEN "Westminster" ELSE "Pimlico"]
StoreLists == SeqsUpTo({Store(id) : id \in StoreIds}, MaxStores)

SearchResponses ==
    {NetErr, Http(200, TextBody)} \cup {Http(200, ArrayBody(l)) : l \in StoreLists}

----------------------------------------------------------------------------
(* Dominos.__init__ *)

EmptyMenu == [c \in {} |-> <<>>]

Init ==
    /\ sess = [id |-> 1, cookies |-> FALSE]
    /\ stores = <<>>
    /\ menu_version = None
    /\ menu = EmptyMenu
    /\ basket = NoBasket
    /\ last = Returns("__init__", 0, Http(200, TextBody), None)
    /\ sent = <<Get("/Home/SessionExpire", <<>>)>>
    /\ ctxOk = FALSE
    /\ ctxVersion = None
    /\ basketResp = NoResp

----------------------------------------------------------------------------
(* Dominos.reset_session *)

ResetResponses == {NetErr, Http(200, TextBody), Http(500, TextBody)}

\* reset_session that also forgets the cached basket
reset_session_drops_basket ==
    \E r \in ResetResponses :
        /\ sent' = <<Get("/Home/SessionExpire", <<>>)>>
        /\ IF r.net = "error"
              THEN /\ last' = Raises("reset_session", 0, r, "ConnectionError")
                   /\ UNCHANGED <<sess, basket>>
              ELSE /\ sess.id < MaxSessions
                   /\ last' = Returns("reset_session", 0, r, None)
                   /\ sess' = [id |-> sess.id + 1, cookies |-> FALSE]
                   /\ basket' = NoBasket
        /\ UNCHANGED <<stores, menu_version, menu,
                       ctxOk, ctxVersion, basketResp>>

\* reset_session that also clears menu_version
reset_session_clears_version ==
    \E r \in ResetResponses :
        /\ sent' = <<Get("/Home/SessionExpire", <<>>)>>
        /\ IF r.net = "error"
              THEN /\ last' = Raises("reset_session", 0, r, "ConnectionError")
                   /\ UNCHANGED <<sess, menu_version>>
              ELSE /\ sess.id < MaxSessions
                   /\ last' = Returns("reset_session", 0, r, None)
                   /\ sess' = [id |-> sess.id + 1, cookies |-> FALSE]
                   /\ menu_version' = None
        /\ UNCHANGED <<stores, menu, basket, ctxOk, ctxVersion, basketResp>>

reset_session ==
    \E r \in ResetResponses :
        /\ sent' = <<Get("/Home/SessionExpire", <<>>)>>
        /\ IF r.net = "error"
              THEN /\ last' = Raises("reset_session", 0, r, "ConnectionError")
                   /\ sess' = sess
              ELSE /\ sess.id < MaxSessions
                   /\ last' = Returns("reset_session", 0, r, None)
                   /\ sess' = [id |-> sess.id + 1, cookies |-> FALSE]
        /\ UNCHANGED <<stores, menu_version, menu, basket,
                       ctxOk, ctxVersion, basketResp>>

----------------------------------------------------------------------------
(* Dominos.search_stores *)

\* search_stores without `self.stores = []`: results pile up
search_stores_appending ==
    \E r \in SearchResponses :
        /\ sent' = <<Get("storelocatormap/storenamesearch", [search |-> "term"])>>
        /\ IF r.net = "error"
              THEN /\ stores' = stores
                   /\ last' = Raises("search_stores", 0, r, "ConnectionError")
              ELSE IF JsonFails(r)
              THEN /\ stores' = stores
                   /\ last' = Raises("search_stores", 0, r, "ValueError")
              ELSE /\ stores' = stores \o r.body.val
                   /\ last' = Call("search_stores", 0, "", 0, r, "return",
                                   "stores", stores', <<>>)
        /\ UNCHANGED <<sess, menu_version, menu, basket,
                       ctxOk, ctxVersion, basketResp>>

search_stores ==
    \E r \in SearchResponses :
        /\ sent' = <<Get("storelocatormap/storenamesearch", [search |-> "term"])>>
        /\ IF r.net = "error"
              THEN /\ stores' = <<>>
                   /\ last' = Raises("search_stores", 0, r, "ConnectionError")
              ELSE IF JsonFails(r)
              THEN /\ stores' = <<>>
                   /\ last' = Raises("search_stores", 0, r, "ValueError")
              ELSE /\ stores' = r.body.val
                   /\ last' = Call("search_stores", 0, "", 0, r, "return",
                                   "stores", stores', <<>>)
        /\ UNCHANGED <<sess, menu_version, menu, basket,
                       ctxOk, ctxVersion, basketResp>>

----------------------------------------------------------------------------
(* Dominos.select_store *)

StoreIndices == (-(MaxStores + 1))..(MaxStores + 1)

select_store ==
    \E idx \in StoreIndices :
        /\ sent' = <<>>
        /\ last' = IF PyValid(stores, idx)
                      THEN Call("select_store", idx, "", 0, NoResp, "return",
                                "store", PyGet(stores, idx), <<>>)
                      ELSE Raises("select_store", idx, NoResp, "IndexError")
        /\ UNCHANGED <<sess, stores, menu_version, menu, basket,
                       ctxOk, ctxVersion, basketResp>>

----------------------------------------------------------------------------
(* Dominos.get_cookie *)

Postcodes == {"SW1A 1AA"}
CookieResponses == {NetErr, Http(200, TextBody)}

get_cookie ==
    \E id \in StoreIds, postcode \in Postcodes, r \in CookieResponses :
        /\ sent' = <<Get("Journey/Initialize",
                         [fulfilmentmethod |-> "1", storeId |-> Store(id).Id,
                          postcode |-> postcode])>>
        /\ IF r.net = "error"
              THEN /\ last' = Raises("get_cookie", id, r, "ConnectionError")
                   /\ sess' = sess
              ELSE /\ last' = Returns("get_cookie", id, r, None)
                   /\ sess' = [sess EXCEPT !.cookies = TRUE]
        /\ UNCHANGED <<stores, menu_version, menu, basket,
                       ctxOk, ctxVersion, basketResp>>

----------------------------------------------------------------------------
(* Dominos.get_store_context *)

Versions == {"", "v1", "v2"}

\* JSON objects the context endpoint answers with: the documented shape, and
\* objects without the nested field
ContextObjects ==
    {[sessionContext |-> [menuVersion |-> v]] : v \in Versions}
        \cup {[sessionContext |-> <<>>], [error |-> "rate limited"]}

ContextResponses ==
    {NetErr, Http(200, TextBody), Http(500, TextBody), Http(200, ArrayBody(<<>>))}
        \cup {Http(200, ObjectBody(o)) : o \in ContextObjects}

\* context['sessionContext']['menuVersion'] evaluates without an exception
HasMenuVersion(b) ==
    /\ b.kind = "object"
    /\ "sessionContext" \in DOMAIN b.val
    /\ "menuVersion" \in DOMAIN b.val.sessionContext

\* the exception context['sessionContext']['menuVersion'] raises otherwise
LookupError(b) == IF b.kind = "object" THEN "KeyError" ELSE "TypeError"

get_store_context ==
    \E r \in ContextResponses :
        /\ sent' = <<Get("ProductCatalog/GetStoreContext", [_ |-> "epoch"])>>
        /\ IF r.net = "error"
              THEN /\ last' = Raises("get_store_context", 0, r, "ConnectionError")
                   /\ UNCHANGED <<menu_version, ctxOk, ctxVersion>>
              ELSE IF JsonFails(r)
              THEN /\ last' = Returns("get_store_context", 0, r, "False")
                   /\ UNCHANGED <<menu_version, ctxOk, ctxVersion>>
              ELSE IF ~HasMenuVersion(r.body)
              THEN /\ last' = Raises("get_store_context", 0, r, LookupError(r.body))
                   /\ UNCHANGED <<menu_version, ctxOk, ctxVersion>>
              ELSE /\ menu_version' = r.body.val.sessionContext.menuVersion
                   /\ last' = Returns("get_store_context", 0, r, "True")
                   /\ ctxOk' = TRUE
                   /\ ctxVersion' = r.body.val.sessionContext.menuVersion
        /\ UNCHANGED <<sess, stores, menu, basket, basketResp>>

----------------------------------------------------------------------------
(* Baskets *)

BasketItemIds == {10, 11}
LineItem(id) ==
    [BasketItemId |-> id, Title |-> IF id = 10 THEN "Margherita" ELSE "Cola"]
BasketObjects ==
    {[Items |-> l] : l \in SeqsUpTo({LineItem(id) : id \in BasketItemIds},
                                    MaxBasketItems)}

\* a JSON object with a member named "self"
SelfObject == [self |-> 1, Items |-> <<>>]

BasketResponses ==
    {NetErr, Http(200, TextBody), Http(200, ArrayBody(<<>>)),
     Http(200, ObjectBody(SelfObject)),
     Http(500, ObjectBody([Items |-> <<LineItem(11)>>]))}
        \cup {Http(200, ObjectBody(o)) : o \in BasketObjects}

\* Basket(**r.json()) raises: ValueError from r.json() on a body that is not
\* JSON, TypeError from ** on a value that is not an object, TypeError from
\* __init__(self, **entries) on an object with a member named "self"
BasketFails(r) ==
    \/ JsonFails(r)
    \/ r.body.kind # "object"
    \/ "self" \in DOMAIN r.body.val

\* Basket(**entries): the instance's attributes are the object's members
BasketOf(o) == <<o>>

----------------------------------------------------------------------------
(* Dominos.get_basket *)

get_basket ==
    \E r \in BasketResponses :
        /\ sent' = <<Get("/Basket/GetBasket?", <<>>)>>
        /\ IF r.net = "error"
              THEN /\ last' = Raises("get_basket", 0, r, "ConnectionError")
                   /\ UNCHANGED <<basket, basketResp>>
              ELSE IF BasketFails(r)
              THEN /\ last' = Returns("get_basket", 0, r, "False")
                   /\ UNCHANGED <<basket, basketResp>>
              ELSE /\ basket' = BasketOf(r.body.val)
                   /\ basketResp' = r
                   /\ last' = Returns("get_basket", 0, r, "True")
        /\ UNCHANGED <<sess, stores, menu_version, menu, ctxOk, ctxVersion>>

----------------------------------------------------------------------------
(* Catalogs *)

Sku(id, ingredients) == [ProductSkuId |-> id, Ingredients |-> ingredients]

Margherita ==
    [ProductId |-> 1, Name |-> "Margherita", Type |-> "Pizza",
     ProductSkus |-> <<Sku(101, <<42>>)>>]
Wedges ==
    [ProductId |-> 2, Name |-> "Wedges", Type |-> "Side",
     ProductSkus |-> <<[ProductSkuId |-> 201]>>]
Cookies ==
    [ProductId |-> 3, Name |-> "Cookies", Type |-> "Side",
     ProductSkus |-> <<[ProductSkuId |-> 301], [ProductSkuId |-> 302]>>]
Cola ==
    [ProductId |-> 4, Name |-> "Cola", Type |-> "Drink",
     ProductSkus |-> <<[ProductSkuId |-> 401]>>]

Subcategory(type, products) == [Type |-> type, Products |-> products]
Group(subcategories) == [Subcategories |-> subcategories]

FullCatalog ==
    <<Group(<<Subcategory("Pizza", <<Margherita>>),
              Subcategory("Side", <<Wedges>>)>>),
      Group(<<Subcategory("Side", <<Cookies>>)>>)>>
SmallCatalog == <<Group(<<Subcategory("Drink", <<Cola>>)>>), Group(<<>>)>>
Catalogs == {<<>>, SmallCatalog, FullCatalog}

MenuResponses ==
    {NetErr, Http(200, TextBody), Http(500, ArrayBody(SmallCatalog))}
        \cup {Http(200, ArrayBody(c)) : c \in Catalogs}

----------------------------------------------------------------------------
(* Menu *)

\* addItem that inserts at the front of the category's list
addItem_prepend(items, category, item) ==
    IF category \in DOMAIN items
       THEN [items EXCEPT ![category] = <<item>> \o @]
       ELSE items @@ (category :> <<item>>)

\* Menu.addItem: setdefault(category, []) and append
addItem(items, category, item) ==
    IF category \in DOMAIN items
       THEN [items EXCEPT ![category] = Append(@, item)]
       ELSE items @@ (category :> <<item>>)

\* the index assigned after the increment
Item_off_by_one(p, idx) == (("idx" :> (idx + 1)) @@ p)

\* p['idx'] = idx; Item(**p): the product's members and its index
Item(p, idx) == (("idx" :> idx) @@ p)

\* the three loops of get_menu; the loop state is [items, idx]
RECURSIVE AddProducts(_, _, _)
AddProducts(st, type, products) ==
    IF products = <<>> THEN st
    ELSE AddProducts([items |-> addItem(st.items, type,
                                        Item(Head(products), st.idx)),
                      idx |-> st.idx + 1],
                     type, Tail(products))

RECURSIVE AddSubcategories(_, _)
AddSubcategories(st, subcategories) ==
    IF subcategories = <<>> THEN st
    ELSE AddSubcategories(AddProducts(st, Head(subcategories).Type,
                                      Head(subcategories).Products),
                          Tail(subcategories))

RECURSIVE AddGroups(_, _)
AddGroups(st, groups) ==
    IF groups = <<>> THEN st
    ELSE AddGroups(AddSubcategories(st, Head(groups).Subcategories),
                   Tail(groups))

Flatten(catalog) == AddGroups([items |-> EmptyMenu, idx |-> 0], catalog).items

----------------------------------------------------------------------------
(* Dominos.get_menu *)

\* get_menu without the version check
NoVersion_unchecked(v) == FALSE

\* `if not self.menu_version`
NoVersion(v) == PyNot(v)

\* the catalog request with a version written into the URL
CatalogUrl_fixed_version(version, store) ==
    [path |-> "/ProductCatalog/GetStoreCatalog?", collectionOnly |-> "false",
     menuVersion |-> "v1", storeId |-> store.Id]

CatalogUrl(version, store) ==
    [path |-> "/ProductCatalog/GetStoreCatalog?", collectionOnly |-> "false",
     menuVersion |-> version, storeId |-> store.Id]

\* get_menu that checks menu_version before it replaces the menu
get_menu_checks_first ==
    \E id \in StoreIds :
        IF NoVersion(menu_version)
           THEN /\ menu' = menu
                /\ sent' = <<>>
                /\ last' = Returns("get_menu", id, NoResp, None)
                /\ UNCHANGED <<sess, stores, menu_version, basket,
                               ctxOk, ctxVersion, basketResp>>
           ELSE \E r \in MenuResponses :
                /\ sent' = <<Get(CatalogUrl(menu_version, Store(id)), <<>>)>>
                /\ IF r.net = "error"
                      THEN /\ menu' = EmptyMenu
                           /\ last' = Raises("get_menu", id, r, "ConnectionError")
                      ELSE IF JsonFails(r)
                      THEN /\ menu' = EmptyMenu
                           /\ last' = Raises("get_menu", id, r, "ValueError")
                      ELSE /\ menu' = Flatten(r.body.val)
                           /\ last' = Returns("get_menu", id, r, "menu")
                /\ UNCHANGED <<sess, stores, menu_version, basket,
                               ctxOk, ctxVersion, basketResp>>

get_menu ==
    \E id \in StoreIds :
        IF NoVersion(menu_version)
           THEN /\ menu' = EmptyMenu
                /\ sent' = <<>>
                /\ last' = Returns("get_menu", id, NoResp, None)
                /\ UNCHANGED <<sess, stores, menu_version, basket,
                               ctxOk, ctxVersion, basketResp>>
           ELSE \E r \in MenuResponses :
                /\ sent' = <<Get(CatalogUrl(menu_version, Store(id)), <<>>)>>
                /\ IF r.net = "error"
                      THEN /\ menu' = EmptyMenu
                           /\ last' = Raises("get_menu", id, r, "ConnectionError")
                      ELSE IF JsonFails(r)
                      THEN /\ menu' = EmptyMenu
                           /\ last' = Raises("get_menu", id, r, "ValueError")
                      ELSE /\ menu' = Flatten(r.body.val)
                           /\ last' = Returns("get_menu", id, r, "menu")
                /\ UNCHANGED <<sess, stores, menu_version, basket,
                               ctxOk, ctxVersion, basketResp>>

----------------------------------------------------------------------------
(* Dominos.add_item *)

SizeIndices == -1..1

\* the base added only where the list does not already have it
PizzaIngredients_dedup(ingredients) ==
    ingredients \o SelectSeq(<<42, 36>>,
                             LAMBDA x : \A i \in DOMAIN ingredients :
                                            ingredients[i] # x)

\* `ingredients += [42, 36]`: always cheese and tomato sauce
PizzaIngredients(ingredients) == ingredients \o <<42, 36>>

PizzaPayload(item, size_idx, ingredients) ==
    [stepId |-> 0, quantity |-> 1, sizeId |-> size_idx,
     productId |-> item.ProductId, ingredients |-> ingredients,
     productIdHalfTwo |-> 0, ingredientsHalfTwo |-> <<>>, recipeReferrer |-> 0]

\* the SKU id posted as a complimentary item as well
SidePayload_complimentary(sku) ==
    [ProductSkuId |-> sku.ProductSkuId, Quantity |-> 1,
     ComplimentaryItems |-> <<sku.ProductSkuId>>]

SidePayload(sku) ==
    [ProductSkuId |-> sku.ProductSkuId, Quantity |-> 1,
     ComplimentaryItems |-> <<>>]

\* the status code left unchecked
StatusFails_unchecked(r) == FALSE

\* `r.status_code != 200`
StatusFails(r) == r.status # 200

\* the POST and what follows it (lines 220-231)
PostItem(cat, pos, size_idx, url, payload) ==
    \E r \in BasketResponses :
        /\ sent' = <<Post(url, payload)>>
        /\ IF r.net = "error"
              THEN /\ UNCHANGED <<basket, basketResp>>
                   /\ last' = Call("add_item", size_idx, cat, pos, r, "raise",
                                   "ConnectionError", <<>>, <<>>)
              ELSE IF StatusFails(r) \/ BasketFails(r)
              THEN /\ UNCHANGED <<basket, basketResp>>
                   /\ last' = Call("add_item", size_idx, cat, pos, r, "return",
                                   "False", <<>>, <<>>)
              ELSE /\ basket' = BasketOf(r.body.val)
                   /\ basketResp' = r
                   /\ last' = Call("add_item", size_idx, cat, pos, r, "return",
                                   "True", <<>>, <<>>)

\* payload preset to None and posted instead of the failure
FailsEarly_posts(cat, pos, size_idx, exc) ==
    /\ menu' = menu
    /\ PostItem(cat, pos, size_idx, "", None)

\* the call fails before any request is made
FailsEarly(cat, pos, size_idx, exc) ==
    /\ sent' = <<>>
    /\ last' = Call("add_item", size_idx, cat, pos, NoResp, "raise", exc,
                    <<>>, <<>>)
    /\ UNCHANGED <<menu, basket, basketResp>>

\* item is the Item object held at menu.items[cat][pos]
add_item ==
    \E cat \in DOMAIN menu, size_idx \in SizeIndices :
      \E pos \in 1..Len(menu[cat]) :
        LET item == menu[cat][pos]
            skus == item.ProductSkus
        IN  /\ IF item.Type = "Pizza"
                  THEN IF ~PyValid(skus, size_idx)
                          THEN FailsEarly(cat, pos, size_idx, "IndexError")
                          ELSE LET k == PyPos(skus, size_idx)
                                   ingredients ==
                                       PizzaIngredients(skus[k].Ingredients)
                               IN  /\ Len(ingredients) <= MaxIngredients
                                   /\ menu' = [menu EXCEPT
                                         ![cat][pos].ProductSkus[k].Ingredients
                                             = ingredients]
                                   /\ PostItem(cat, pos, size_idx,
                                               "/Basket/AddPizza/",
                                               PizzaPayload(item, size_idx,
                                                            ingredients))
                  ELSE IF item.Type = "Side"
                  THEN IF ~PyValid(skus, size_idx)
                          THEN FailsEarly(cat, pos, size_idx, "IndexError")
                          ELSE /\ menu' = menu
                               /\ PostItem(cat, pos, size_idx,
                                           "/Basket/AddProduct/",
                                           SidePayload(PyGet(skus, size_idx)))
                  ELSE FailsEarly(cat, pos, size_idx, "UnboundLocalError")
            /\ UNCHANGED <<sess, stores, menu_version, ctxOk, ctxVersion>>

----------------------------------------------------------------------------
(* Dominos.remove_item *)

BasketIndices == -1..MaxBasketItems

\* the removal keyed by the position instead of the line item's id
RemovePayload_by_position(item, basket_item_idx) ==
    [basketItemId |-> basket_item_idx, wizardItemDelete |-> FALSE]

RemovePayload(item, basket_item_idx) ==
    [basketItemId |-> item.BasketItemId, wizardItemDelete |-> FALSE]

remove_item ==
    \E idx \in BasketIndices :
        /\ IF basket = NoBasket
              THEN /\ sent' = <<>>
                   /\ UNCHANGED <<basket, basketResp>>
                   /\ last' = Raises("remove_item", idx, NoResp, "AttributeError")
              ELSE IF ~PyValid(basket[1].Items, idx)
              THEN /\ sent' = <<>>
                   /\ UNCHANGED <<basket, basketResp>>
                   /\ last' = Raises("remove_item", idx, NoResp, "IndexError")
              ELSE \E r \in BasketResponses :
                   LET item == PyGet(basket[1].Items, idx)
                   IN  /\ sent' = <<Get("/Basket/RemoveBasketItem",
                                        RemovePayload(item, idx))>>
                       /\ IF r.net = "error"
                             THEN /\ UNCHANGED <<basket, basketResp>>
                                  /\ last' = Raises("remove_item", idx, r,
                                                    "ConnectionError")
                             ELSE IF StatusFails(r)
                             THEN /\ UNCHANGED <<basket, basketResp>>
                                  /\ last' = Call("remove_item", idx, "", 0, r,
                                        "return", None, <<>>,
                                        <<"[Error] Connection failed to remove item.">>)
                             ELSE IF BasketFails(r)
                             THEN /\ UNCHANGED <<basket, basketResp>>
                                  /\ last' = Call("remove_item", idx, "", 0, r,
                                        "return", None, <<>>,
                                        <<"[Error] Error removing item. Invalid response.">>)
                             ELSE /\ basket' = BasketOf(r.body.val)
                                  /\ basketResp' = r
                                  /\ last' = Call("remove_item", idx, "", 0, r,
                                        "return", None, <<>>,
                                        <<"[OK] Removed %s", item.Title>>)
        /\ UNCHANGED <<sess, stores, menu_version, menu, ctxOk, ctxVersion>>

----------------------------------------------------------------------------

Next ==
    \/ reset_session
    \/ search_stores
    \/ select_store
    \/ get_cookie
    \/ get_store_context
    \/ get_basket
    \/ get_menu
    \/ add_item
    \/ remove_item

Spec == Init /\ [][Next]_vars

----------------------------------------------------------------------------
(* Properties *)

\* 0 <= i < len(s): i is a position of s, counted from 0
InRange(s, i) == 0 <= i /\ i < Len(s)

\* C1: while no get_store_context call has returned True, menu_version is
\* None, and a get_menu call returns None without issuing a request.
C1_NoVersionBeforeContext ==
    ~ctxOk =>
        /\ menu_version = None
        /\ last.op = "get_menu" =>
              /\ last.kind = "return"
              /\ last.val = None
              /\ sent = <<>>

\* get_menu was called, after a get_cookie, before any successful context
C1_Witness == ~ctxOk /\ last.op = "get_menu" /\ sess.cookies

\* C2: select_store(i) returns the i-th store for 0 <= i < len(stores) and
\* raises an out-of-range error for every other integer.
C2_SelectStoreOnlyInRange ==
    last.op = "select_store" =>
        IF InRange(stores, last.idx)
           THEN /\ last.kind = "return"
                /\ last.obj = stores[last.idx + 1]
           ELSE /\ last.kind = "raise"
                /\ last.val = "IndexError"

\* C3 as stated: add_item that got a response returns False and keeps the
\* cached basket on a non-200 status or a body that is not JSON, and returns
\* True and caches the body's basket on a 200 with any JSON body.
C3_AddItemAnyJson ==
    [][(last'.op = "add_item" /\ last'.resp.net = "ok") =>
          IF last'.resp.status # 200 \/ last'.resp.body.kind = "text"
             THEN /\ last'.kind = "return" /\ last'.val = "False"
                  /\ basket' = basket
             ELSE /\ last'.kind = "return" /\ last'.val = "True"
                  /\ basket' = <<last'.resp.body.val>>]_vars

\* C3 amended: the same, where the body that makes add_item succeed is a JSON
\* object the Basket constructor accepts (an object without a member "self");
\* any other body, JSON or not, is a failure.
C3_AddItemResult ==
    [][(last'.op = "add_item" /\ last'.resp.net = "ok") =>
          IF \/ last'.resp.status # 200
             \/ last'.resp.body.kind # "object"
             \/ "self" \in DOMAIN last'.resp.body.val
             THEN /\ last'.kind = "return" /\ last'.val = "False"
                  /\ basket' = basket
             ELSE /\ last'.kind = "return" /\ last'.val = "True"
                  /\ basket' = <<last'.resp.body.val>>]_vars

\* add_item failed on a non-200 response that carries a basket other than
\* the cached one
C3_Witness ==
    /\ last.op = "add_item" /\ last.val = "False"
    /\ last.resp.status = 500 /\ last.resp.body.kind = "object"
    /\ basket # NoBasket /\ basket # <<last.resp.body.val>>

\* C4: get_store_context always returns a boolean: True with menu_version set
\* to the response's sessionContext.menuVersion on a well-formed response,
\* False with menu_version unchanged on a transport failure, a body that is
\* not JSON, or a JSON body without that field.
C4_ContextNeverRaises ==
    [][last'.op = "get_store_context" =>
          /\ last'.kind = "return"
          /\ IF /\ last'.resp.net = "ok"
                /\ last'.resp.body.kind = "object"
                /\ "sessionContext" \in DOMAIN last'.resp.body.val
                /\ "menuVersion" \in DOMAIN last'.resp.body.val.sessionContext
                THEN /\ last'.val = "True"
                     /\ menu_version' =
                            last'.resp.body.val.sessionContext.menuVersion
                ELSE /\ last'.val = "False"
                     /\ menu_version' = menu_version]_vars

\* C5: get_basket always returns a boolean: True with the cached basket
\* replaced when the response is a JSON object, False with the cached basket
\* unchanged on a transport failure or an unparseable response.
C5_BasketNeverRaises ==
    [][last'.op = "get_basket" =>
          /\ last'.kind = "return"
          /\ (last'.resp.net = "ok" /\ last'.resp.body.kind = "object") =>
                (last'.val = "True" /\ basket' = <<last'.resp.body.val>>)
          /\ (last'.resp.net = "error" \/ last'.resp.body.kind = "text") =>
                (last'.val = "False" /\ basket' = basket)]_vars

\* C6: reset_session completes normally whatever happens to the
\* session-expire request, and leaves a new session with an empty cookie jar.
C6_ResetNeverFails ==
    [][last'.op = "reset_session" =>
          /\ last'.kind = "return"
          /\ sess'.id # sess.id
          /\ sess'.cookies = FALSE]_vars

\* C7 as stated: remove_item(i) on a line item of the cached basket issues
\* exactly one request, a removal whose basketItemId is that line item's
\* BasketItemId and whose wizardItemDelete is false, and on a 200 response
\* with any JSON body the cached basket becomes the body's basket.
C7_RemoveAnyJson ==
    [][(/\ last'.op = "remove_item"
        /\ basket # NoBasket
        /\ InRange(basket[1].Items, last'.idx)) =>
          /\ Len(sent') = 1
          /\ sent'[1].method = "GET"
          /\ sent'[1].url = "/Basket/RemoveBasketItem"
          /\ sent'[1].data =
                [basketItemId |-> basket[1].Items[last'.idx + 1].BasketItemId,
                 wizardItemDelete |-> FALSE]
          /\ (/\ last'.resp.net = "ok"
              /\ last'.resp.status = 200
              /\ last'.resp.body.kind # "text") =>
                basket' = <<last'.resp.body.val>>]_vars

\* C7 amended: the same, where the 200 response that replaces the cached
\* basket carries a JSON object the Basket constructor accepts (an object
\* without a member "self").
C7_RemoveByItemId ==
    [][(/\ last'.op = "remove_item"
        /\ basket # NoBasket
        /\ InRange(basket[1].Items, last'.idx)) =>
          /\ Len(sent') = 1
          /\ sent'[1].method = "GET"
          /\ sent'[1].url = "/Basket/RemoveBasketItem"
          /\ sent'[1].data =
                [basketItemId |-> basket[1].Items[last'.idx + 1].BasketItemId,
                 wizardItemDelete |-> FALSE]
          /\ (/\ last'.resp.net = "ok"
              /\ last'.resp.status = 200
              /\ last'.resp.body.kind = "object"
              /\ "self" \notin DOMAIN last'.resp.body.val) =>
                basket' = <<last'.resp.body.val>>]_vars

\* remove_item(1) removed the second line item and cached the server's basket
C7_Witness ==
    /\ last.op = "remove_item" /\ last.idx = 1
    /\ last.resp.status = 200 /\ last.resp.body.kind = "object"
    /\ last.out = <<"[OK] Removed %s", "Cola">>
    /\ sent[1].data.basketItemId = 11
    /\ basket = <<last.resp.body.val>>

\* C8: remove_item on a line item of the cached basket never raises: on a
\* transport failure, a non-200 response or an unparseable body it prints an
\* error, returns, and leaves the cached basket unchanged.
C8_RemoveNeverRaises ==
    [][(/\ last'.op = "remove_item"
        /\ basket # NoBasket
        /\ InRange(basket[1].Items, last'.idx)) =>
          /\ last'.kind = "return"
          /\ (\/ last'.resp.net = "error"
              \/ last'.resp.status # 200
              \/ last'.resp.body.kind = "text") =>
                /\ last'.out # <<>>
                /\ last'.out[1] # "[OK] Removed %s"
                /\ basket' = basket]_vars

\* C9: add_item on a Pizza with a size index of the item posts one add-pizza
\* request whose ingredients are the selected variant's list, as it is when
\* the call is made, followed by 42 and 36, with stepId 0, quantity 1,
\* sizeId the size index, productId the item's product id, productIdHalfTwo
\* 0, ingredientsHalfTwo empty and recipeReferrer 0.
C9_PizzaPayload ==
    [][(/\ last'.op = "add_item"
        /\ menu[last'.cat][last'.pos].Type = "Pizza"
        /\ PyValid(menu[last'.cat][last'.pos].ProductSkus, last'.idx)) =>
          /\ Len(sent') = 1
          /\ sent'[1].method = "POST"
          /\ sent'[1].url = "/Basket/AddPizza/"
          /\ sent'[1].data =
                [stepId |-> 0, quantity |-> 1, sizeId |-> last'.idx,
                 productId |-> menu[last'.cat][last'.pos].ProductId,
                 ingredients |->
                     PyGet(menu[last'.cat][last'.pos].ProductSkus,
                           last'.idx).Ingredients \o <<42, 36>>,
                 productIdHalfTwo |-> 0, ingredientsHalfTwo |-> <<>>,
                 recipeReferrer |-> 0]]_vars

\* a pizza whose variant already lists 42 was posted with 42 and 36 appended
C9_Witness ==
    /\ last.op = "add_item" /\ last.cat = "Pizza"
    /\ Len(sent) = 1
    /\ sent[1].data.ingredients = <<42, 42, 36>>

\* C10: add_item leaves every menu item as get_menu produced it: the size
\* variants and their ingredient lists are the same after the call as before.
C10_ItemsImmutable ==
    [][last'.op = "add_item" => menu' = menu]_vars

RECURSIVE Concat(_)
\* the concatenation of a sequence of sequences
Concat(ss) == IF Len(ss) = 0 THEN <<>> ELSE Head(ss) \o Concat(Tail(ss))

\* the products of a catalog response with their subcategory's Type, in
\* response order: category group, then subcategory, then product
ResponseOrder(catalog) ==
    Concat([g \in DOMAIN catalog |->
        Concat([k \in DOMAIN catalog[g].Subcategories |->
            [n \in DOMAIN catalog[g].Subcategories[k].Products |->
                [Type |-> catalog[g].Subcategories[k].Type,
                 Product |-> catalog[g].Subcategories[k].Products[n]]]])])

\* the places <<category, position>> of the cached menu
MenuSlots == UNION {{<<c, i>> : i \in DOMAIN menu[c]} : c \in DOMAIN menu}

\* C11: the indices of the cached menu's items are 0, 1, 2, ... without
\* repetition and increase along each category's list; right after a
\* successful get_menu the item with index k is the k-th product of the
\* response in flatten order.
C11_IndicesInFlattenOrder ==
    /\ {menu[x[1]][x[2]].idx : x \in MenuSlots}
           = 0..(Cardinality(MenuSlots) - 1)
    /\ \A c \in DOMAIN menu : \A i, j \in DOMAIN menu[c] :
           i < j => menu[c][i].idx < menu[c][j].idx
    /\ (last.op = "get_menu" /\ last.val = "menu") =>
           LET order == ResponseOrder(last.resp.body.val)
           IN  /\ Len(order) = Cardinality(MenuSlots)
               /\ \A x \in MenuSlots :
                     order[menu[x[1]][x[2]].idx + 1].Product.ProductId
                         = menu[x[1]][x[2]].ProductId

\* get_menu succeeded on a catalog whose Side category spans two groups
C11_Witness ==
    /\ last.op = "get_menu" /\ last.val = "menu"
    /\ "Side" \in DOMAIN menu /\ Len(menu["Side"]) = 2
    /\ menu["Side"][2].idx = 2

\* C12: after reset_session returns, menu_version is None, and it stays None
\* until a get_store_context call returns True.
C12_ResetClearsVersion ==
    [][/\ (last'.op = "reset_session" /\ last'.kind = "return") =>
              menu_version' = None
       /\ (/\ menu_version = None
           /\ ~(last'.op = "get_store_context" /\ last'.val = "True")) =>
              menu_version' = None]_vars

\* C13: reset_session leaves the cached menu_version, basket, menu and store
\* list as they were.
C13_ResetKeepsCaches ==
    [][last'.op = "reset_session" =>
          UNCHANGED <<menu_version, basket, menu, stores>>]_vars

\* reset_session returned while a version, a basket, a menu and stores were
\* cached
C13_Witness ==
    /\ last.op = "reset_session" /\ last.kind = "return"
    /\ ~sess.cookies
    /\ menu_version = "v1" /\ basket # NoBasket
    /\ menu # EmptyMenu /\ stores # <<>>

\* C14: a catalog request of get_menu(store) carries as menuVersion the
\* version of the most recent get_store_context that returned True and as
\* storeId the Id of the store passed in; a get_store_context that does not
\* return True leaves menu_version as it was.
C14_CatalogRequestVersion ==
    [][/\ (last'.op = "get_menu" /\ sent' # <<>>) =>
              /\ Len(sent') = 1
              /\ ctxOk
              /\ sent'[1].url.menuVersion = ctxVersion
              /\ sent'[1].url.storeId = last'.idx
       /\ (last'.op = "get_store_context" /\ last'.val # "True") =>
              menu_version' = menu_version]_vars

\* get_menu asked for the catalog of store 2 with the version "v2" cached
C14_Witness ==
    /\ last.op = "get_menu" /\ last.idx = 2
    /\ Len(sent) = 1
    /\ sent[1].url.menuVersion = "v2"
    /\ sent[1].url.storeId = 2

\* C15: a search_stores call that gets a JSON array caches exactly that
\* array as the store list and returns it, also when it is empty; only
\* search_stores changes the store list, and select_store reads from it.
C15_StoresAreLastResult ==
    [][/\ (/\ last'.op = "search_stores"
           /\ last'.resp.net = "ok"
           /\ last'.resp.body.kind = "array") =>
              /\ last'.kind = "return"
              /\ stores' = last'.resp.body.val
              /\ last'.obj = last'.resp.body.val
       /\ (last'.op = "select_store" /\ InRange(stores, last'.idx)) =>
              /\ stores' = stores
              /\ last'.obj = stores[last'.idx + 1]
       /\ stores' # stores => last'.op = "search_stores"]_vars

\* a search without matches returned the empty list
C15_Witness ==
    /\ last.op = "search_stores" /\ last.kind = "return"
    /\ last.resp.body.kind = "array"
    /\ stores = <<>>

\* C16: add_item on a Side with a size index of the item posts one
\* add-product request whose payload is the ProductSkuId of the selected
\* variant, Quantity 1 and an empty ComplimentaryItems list.
C16_SidePayload ==
    [][(/\ last'.op = "add_item"
        /\ menu[last'.cat][last'.pos].Type = "Side"
        /\ PyValid(menu[last'.cat][last'.pos].ProductSkus, last'.idx)) =>
          /\ Len(sent') = 1
          /\ sent'[1].method = "POST"
          /\ sent'[1].url = "/Basket/AddProduct/"
          /\ sent'[1].data =
                [ProductSkuId |->
                     PyGet(menu[last'.cat][last'.pos].ProductSkus,
                           last'.idx).ProductSkuId,
                 Quantity |-> 1,
                 ComplimentaryItems |-> <<>>]]_vars

\* the second size of a side with two sizes was posted
C16_Witness ==
    /\ last.op = "add_item" /\ last.cat = "Side" /\ last.idx = 1
    /\ Len(sent) = 1
    /\ sent[1].url = "/Basket/AddProduct/"
    /\ sent[1].data.ProductSkuId = 302

\* the call succeeded: get_basket and add_item returned True, remove_item
\* printed its confirmation
BasketCallSucceeded(call) ==
    \/ call.op \in {"get_basket", "add_item"} /\ call.val = "True"
    \/ /\ call.op = "remove_item"
       /\ call.out # <<>>
       /\ call.out[1] = "[OK] Removed %s"

\* C17: the cached basket is absent while no get_basket, add_item or
\* remove_item call has succeeded, and otherwise is the body of the response
\* to the most recent such call that succeeded; every other call, and every
\* such call that does not succeed, leaves the cached basket as it was.
C17_BasketIsLastBody ==
    /\ [](basket = IF basketResp = NoResp THEN NoBasket
                                           ELSE <<basketResp.body.val>>)
    /\ [][/\ BasketCallSucceeded(last') => basketResp' = last'.resp
          /\ ~BasketCallSucceeded(last') =>
                UNCHANGED <<basket, basketResp>>]_vars

\* a remove_item call failed on its response while the basket of a get_basket
\* response with status 500 was cached
C17_Witness ==
    /\ last.op = "remove_item"
    /\ last.out = <<"[Error] Error removing item. Invalid response.">>
    /\ basketResp.status = 500
    /\ basket = <<[Items |-> <<LineItem(11)>>]>>

\* C18: right after a successful get_menu the cached menu has one key for
\* each subcategory Type that has products in the response, and under each
\* key exactly the products of the subcategories of that Type, once each, in
\* response order.
C18_MenuIsResponse ==
    (last.op = "get_menu" /\ last.val = "menu") =>
        LET order == ResponseOrder(last.resp.body.val)
        IN  /\ DOMAIN menu = {order[k].Type : k \in DOMAIN order}
            /\ \A c \in DOMAIN menu :
                  LET mine == SelectSeq(order, LAMBDA e : e.Type = c)
                  IN  /\ Len(menu[c]) = Len(mine)
                      /\ \A i \in DOMAIN mine :
                            \A f \in DOMAIN mine[i].Product :
                                menu[c][i][f] = mine[i].Product[f]

\* get_menu succeeded on the catalog with pizzas and sides
C18_Witness ==
    /\ last.op = "get_menu" /\ last.val = "menu"
    /\ last.resp.body.val = FullCatalog
    /\ DOMAIN menu = {"Pizza", "Side"}
    /\ menu["Side"][1].ProductId = 2 /\ menu["Side"][2].ProductId = 3

\* C19: add_item on an item whose Type is neither Pizza nor Side raises
\* before any request is issued and leaves the cached basket as it was.
C19_OtherTypeRaises ==
    [][(/\ last'.op = "add_item"
        /\ menu[last'.cat][last'.pos].Type \notin {"Pizza", "Side"}) =>
          /\ last'.kind = "raise"
          /\ sent' = <<>>
          /\ basket' = basket]_vars

\* add_item on a drink raised while a basket was cached
C19_Witness ==
    /\ last.op = "add_item" /\ last.cat = "Drink"
    /\ last.kind = "raise" /\ last.val = "UnboundLocalError"
    /\ sent = <<>>
    /\ basket # NoBasket

\* C20: a get_menu call that returns None leaves an empty menu cached,
\* whatever menu was cached before the call.
C20_UnavailableEmptiesMenu ==
    [][(last'.op = "get_menu" /\ last'.kind = "return" /\ last'.val = None) =>
          menu' = EmptyMenu]_vars

\* get_menu returned None after a get_store_context call had stored an empty
\* version
C20_Witness ==
    /\ last.op = "get_menu" /\ last.val = None
    /\ ctxOk /\ menu_version = ""
    /\ menu = EmptyMenu

====
